---- MODULE Spec2Model ----
(***************************************************************************)
(* PPPoE session balancing (src/main.py): the script walks a list of BRAS  *)
(* devices, reads the PPPoE session count of every physical interface,     *)
(* maps it to a PADO delay through three thresholds and reconfigures the   *)
(* BBA groups whose configured delay differs.                              *)
(*                                                                         *)
(* Strings of the program are TLA+ strings; TLC evaluates Len, SubSeq and  *)
(* \o on them, so prefixes, regular-expression searches, formatting and    *)
(* parsing of numbers are computed character by character.                 *)
(***************************************************************************)
EXTENDS Integers, Sequences, FiniteSets, TLC

VARIABLES
    pc,                         \* position of main / phase of the run
    bras_dict,                  \* keys of parameters['bras_dict'], in order
    dev,                        \* index of the device the for loop is at
    i,                          \* connection_to_iosxe: failed attempts
    ssh_connection,             \* "unset", "None" or "session"
    thresholds,                 \* <<threshold_256, threshold_512, threshold_9999>>
    samples,                    \* findall result still to be iterated (line 189)
    interfaces_and_pado_list,   \* list of <<interface_name, pado_delay>>
    pado_delay_current_dict,    \* group name -> configured delay
    config_set,                 \* list of command strings built by the diff
    oplog,                      \* operations done on the current device, in order
    contacted,                  \* device keys ConnectHandler was called for
    exception,                  \* uncaught exception that ended the run, or "none"
    device_dict,                \* the device's group -> delay after send_config_set
    config_set_again,           \* batch of a second create_pado_config_set
    sessions_number,            \* classifier: session count of the current poll
    pado_delay,                 \* classifier: delay computed for it
    prev_sessions_number,       \* classifier: session count of the previous poll
    prev_pado_delay,            \* classifier: delay computed for the previous poll
    output,                     \* parser: text returned by 'sh run | sec bba'
    parsed                      \* parser: outcome of get_pado_delay_current_dict

vars == <<pc, bras_dict, dev, i, ssh_connection, thresholds, samples,
          interfaces_and_pado_list, pado_delay_current_dict, config_set, oplog,
          contacted, exception, device_dict, config_set_again, sessions_number,
          pado_delay, prev_sessions_number, prev_pado_delay, output, parsed>>

mainVars == <<bras_dict, dev, i, ssh_connection, samples, oplog, contacted>>
diffVars == <<interfaces_and_pado_list, pado_delay_current_dict, config_set,
              device_dict, config_set_again>>
classVars == <<sessions_number, pado_delay, prev_sessions_number, prev_pado_delay>>
parseVars == <<output, parsed>>

(***************************************************************************)
(* Bounds of the model.                                                    *)
(***************************************************************************)
MaxLines == 3          \* lines of a configuration text
MaxInterfaces == 2     \* entries of a desired (interface, delay) list
MaxSessions == 5       \* largest session count polled
MaxThreshold == 4      \* largest threshold value
MaxDevices == 2        \* keys of bras_dict

(***************************************************************************)
(* Strings.                                                                *)
(***************************************************************************)
Char(s, k) == SubSeq(s, k, k)

Min(S) == CHOOSE x \in S : \A y \in S : x <= y
Max(S) == CHOOSE x \in S : \A y \in S : x >= y

\* str.startswith
StartsWith(s, p) == Len(s) >= Len(p) /\ SubSeq(s, 1, Len(p)) = p

\* \s of the regular expressions, over the characters the model draws
IsSpace(c) == c \in {" ", "\n"}

\* \d
IsDigit(c) == c \in {"0", "1", "2", "3", "4", "5", "6", "7", "8", "9"}

DigitVal(c) ==
    CASE c = "0" -> 0 [] c = "1" -> 1 [] c = "2" -> 2 [] c = "3" -> 3
      [] c = "4" -> 4 [] c = "5" -> 5 [] c = "6" -> 6 [] c = "7" -> 7
      [] c = "8" -> 8 [] c = "9" -> 9

DigitChar(d) == Char("0123456789", d + 1)

\* The end of the greedy \S+ that starts at position k of s.
RunEnd(s, k) ==
    Max({e \in k..Len(s) : \A j \in k..e : ~IsSpace(Char(s, j))})

\* The start of the maximal run of non-space characters that holds position k.
RunStart(s, k) ==
    Min({b \in 1..k : \A j \in b..k : ~IsSpace(Char(s, j))})

\* re.search(lit + r'(\S+)', s): the first place where the literal is
\* followed by a non-space character; group(1) is the greedy run from there.
\* found = FALSE is re.search returning None.
re_search_literal_group(lit, s) ==
    LET n == Len(lit)
        starts == {k \in 1..(Len(s) - n) :
                     /\ SubSeq(s, k, k + n - 1) = lit
                     /\ ~IsSpace(Char(s, k + n))}
    IN  IF starts = {}
        THEN [found |-> FALSE, group |-> ""]
        ELSE LET k == Min(starts)
             IN  [found |-> TRUE,
                  group |-> SubSeq(s, k + n, RunEnd(s, k + n))]

\* str.split(sep='\n')
RECURSIVE split(_)
split(s) ==
    LET nl == {k \in 1..Len(s) : Char(s, k) = "\n"}
    IN  IF nl = {}
        THEN <<s>>
        ELSE <<SubSeq(s, 1, Min(nl) - 1)>> \o split(SubSeq(s, Min(nl) + 1, Len(s)))

\* '\n'.join(lines): the text whose lines are the given ones
RECURSIVE join(_)
join(lines) ==
    IF lines = <<>> THEN ""
    ELSE IF Len(lines) = 1 THEN lines[1]
    ELSE lines[1] \o "\n" \o join(Tail(lines))

\* str(n) of an f-string, n an int
RECURSIVE str(_)
str(n) ==
    IF n < 0 THEN "-" \o str(-n)
    ELSE IF n < 10 THEN DigitChar(n)
    ELSE str(n \div 10) \o DigitChar(n % 10)

\* int(s): ok = FALSE is ValueError.  An optional sign and decimal digits.
RECURSIVE DigitsValue(_)
DigitsValue(s) ==
    IF Len(s) = 1 THEN DigitVal(s)
    ELSE 10 * DigitsValue(SubSeq(s, 1, Len(s) - 1)) + DigitVal(Char(s, Len(s)))

AllDigits(s) == Len(s) >= 1 /\ \A k \in 1..Len(s) : IsDigit(Char(s, k))

int(s) ==
    IF AllDigits(s) THEN [ok |-> TRUE, value |-> DigitsValue(s)]
    ELSE IF Len(s) >= 2 /\ Char(s, 1) = "-" /\ AllDigits(Tail(s))
    THEN [ok |-> TRUE, value |-> 0 - DigitsValue(Tail(s))]
    ELSE IF Len(s) >= 2 /\ Char(s, 1) = "+" /\ AllDigits(Tail(s))
    THEN [ok |-> TRUE, value |-> DigitsValue(Tail(s))]
    ELSE [ok |-> FALSE, value |-> 0]

(***************************************************************************)
(* get_interface_number, get_bba_group_names.                              *)
(***************************************************************************)
\* Positions q where \d/\d/\d matches with a non-space character before it.
SlotPositions(s) ==
    {q \in 2..(Len(s) - 4) :
        /\ IsDigit(Char(s, q)) /\ Char(s, q + 1) = "/"
        /\ IsDigit(Char(s, q + 2)) /\ Char(s, q + 3) = "/"
        /\ IsDigit(Char(s, q + 4))
        /\ ~IsSpace(Char(s, q - 1))}

\* re.search(r'\S+(\d/\d/\d)', interface_name).group(1): the match starts at
\* the leftmost run of non-space characters that can reach a \d/\d/\d, and
\* the greedy \S+ leaves the last \d/\d/\d of that run to the group.
\* found = FALSE is re.search returning None (AttributeError on .group).
get_interface_number(interface_name) ==
    LET occ == SlotPositions(interface_name)
    IN  IF occ = {}
        THEN [found |-> FALSE, group |-> ""]
        ELSE LET start == Min({RunStart(interface_name, q - 1) : q \in occ})
                 q == Max({x \in occ : RunStart(interface_name, x - 1) = start})
             IN  [found |-> TRUE, group |-> SubSeq(interface_name, q, q + 4)]

\* Variant: the NAT prefix in the mixed case of earlier revisions.
get_bba_group_names_mixed_case(interface_name) ==
    LET interface_number == get_interface_number(interface_name).group
    IN  <<"PPPOE_" \o interface_number, "PPPoE_NAT_" \o interface_number>>

\* The names main passes come from re.findall (line 43), whose first group
\* ends in \d/\d/\d after a non-space character, so the search of
\* get_interface_number finds a match for each of them.
get_bba_group_names(interface_name) ==
    LET interface_number == get_interface_number(interface_name).group
    IN  <<"PPPOE_" \o interface_number, "PPPOE_NAT_" \o interface_number>>

(***************************************************************************)
(* get_pado_delay.                                                         *)
(***************************************************************************)
\* Variant: a count equal to a threshold stays in the tier below.
get_pado_delay_boundary_below(sessions, threshold_256, threshold_512, threshold_9999) ==
    IF sessions <= threshold_256 THEN 0
    ELSE IF threshold_256 < sessions /\ sessions <= threshold_512 THEN 256
    ELSE IF threshold_512 < sessions /\ sessions <= threshold_9999 THEN 512
    ELSE 9999

\* Variant: the delays of the two middle tiers exchanged.
get_pado_delay_tiers_swapped(sessions, threshold_256, threshold_512, threshold_9999) ==
    IF sessions < threshold_256 THEN 0
    ELSE IF threshold_256 <= sessions /\ sessions < threshold_512 THEN 512
    ELSE IF threshold_512 <= sessions /\ sessions < threshold_9999 THEN 256
    ELSE 9999

get_pado_delay(sessions, threshold_256, threshold_512, threshold_9999) ==
    IF sessions < threshold_256 THEN 0
    ELSE IF threshold_256 <= sessions /\ sessions < threshold_512 THEN 256
    ELSE IF threshold_512 <= sessions /\ sessions < threshold_9999 THEN 512
    ELSE 9999

(***************************************************************************)
(* get_pado_delay_current_dict: the loop over the lines of the text.       *)
(***************************************************************************)
DictSet(d, k, v) == [x \in (DOMAIN d) \cup {k} |-> IF x = k THEN v ELSE d[x]]

EmptyDict == [x \in {} |-> 0]

\* One iteration of the for loop.  acc.bound says whether the local variable
\* bba_group_name has been assigned; acc.exc is the exception raised so far.
ParseLine(acc, line) ==
    IF acc.exc # "none" THEN acc
    ELSE IF StartsWith(line, "bba-group pppoe")
    THEN LET m == re_search_literal_group("bba-group pppoe ", line)
         IN  IF ~m.found
             THEN [acc EXCEPT !.exc = "AttributeError"]
             ELSE [acc EXCEPT !.bound = TRUE,
                              !.bba_group_name = m.group,
                              !.dict = DictSet(acc.dict, m.group, 0)]
    ELSE IF StartsWith(line, " pado delay")
    THEN LET m == re_search_literal_group("pado delay ", line)
         IN  IF ~m.found
             THEN [acc EXCEPT !.exc = "AttributeError"]
             ELSE IF ~int(m.group).ok
             THEN [acc EXCEPT !.exc = "ValueError"]
             ELSE IF ~acc.bound
             THEN [acc EXCEPT !.exc = "UnboundLocalError"]
             ELSE [acc EXCEPT !.dict =
                       DictSet(acc.dict, acc.bba_group_name, int(m.group).value)]
    ELSE acc

RECURSIVE ParseLines(_, _)
ParseLines(acc, lines) ==
    IF lines = <<>> THEN acc
    ELSE ParseLines(ParseLine(acc, Head(lines)), Tail(lines))

\* The result: the dictionary returned, or the exception raised.
get_pado_delay_current_dict(text) ==
    LET r == ParseLines([dict |-> EmptyDict, bound |-> FALSE,
                         bba_group_name |-> "", exc |-> "none"],
                        split(text))
    IN  [exc |-> r.exc, dict |-> r.dict]

(***************************************************************************)
(* is_pado_change_needed, create_pado_config_set.                          *)
(***************************************************************************)
\* Variant: dict.get in place of the membership test, so that an absent
\* group (None) differs from every delay.
is_pado_change_needed_get(bba_group_name, delay, current_dict) ==
    IF bba_group_name \in DOMAIN current_dict
    THEN delay # current_dict[bba_group_name]
    ELSE TRUE

\* Variant: the desired delay compared with 0 instead of the current delay.
is_pado_change_needed_nonzero(bba_group_name, delay, current_dict) ==
    /\ bba_group_name \in DOMAIN current_dict
    /\ delay # 0

is_pado_change_needed(bba_group_name, delay, current_dict) ==
    /\ bba_group_name \in DOMAIN current_dict
    /\ delay # current_dict[bba_group_name]

\* Variant: the delay command written with the indentation of the
\* running configuration.
GroupCommands_indented(bba_group_name, delay) ==
    <<"bba-group pppoe " \o bba_group_name, " pado delay " \o str(delay)>>

\* The two commands appended at line 138.
GroupCommands(bba_group_name, delay) ==
    <<"bba-group pppoe " \o bba_group_name, "pado delay " \o str(delay)>>

\* The inner loop (lines 134-138) for one entry of the list.
InterfaceCommands(entry, current_dict) ==
    LET names == get_bba_group_names(entry[1])
        cmds(k) == IF is_pado_change_needed(names[k], entry[2], current_dict)
                   THEN GroupCommands(names[k], entry[2])
                   ELSE <<>>
    IN  cmds(1) \o cmds(2)

\* The outer loop (line 133), given the dictionary line 132 fetched.
RECURSIVE create_pado_config_set(_, _)
create_pado_config_set(list, current_dict) ==
    IF list = <<>> THEN <<>>
    ELSE InterfaceCommands(Head(list), current_dict)
             \o create_pado_config_set(Tail(list), current_dict)

(***************************************************************************)
(* The device's side of send_config_set (line 153): the commands are       *)
(* entered in order; 'bba-group pppoe <g>' enters group g, creating it     *)
(* when the device has none, and 'pado delay <d>' sets the delay of the    *)
(* group entered.                                                          *)
(***************************************************************************)
RECURSIVE DeviceEnter(_, _, _)
DeviceEnter(cmds, group, dict) ==
    IF cmds = <<>> THEN dict
    ELSE LET cmd == Head(cmds)
         IN  IF StartsWith(cmd, "bba-group pppoe ")
             THEN LET g == SubSeq(cmd, Len("bba-group pppoe ") + 1, Len(cmd))
                  IN  DeviceEnter(Tail(cmds), g,
                                  IF g \in DOMAIN dict THEN dict
                                  ELSE DictSet(dict, g, 0))
             ELSE IF StartsWith(cmd, "pado delay ") /\ group # ""
             THEN LET d == int(SubSeq(cmd, Len("pado delay ") + 1, Len(cmd)))
                  IN  DeviceEnter(Tail(cmds), group,
                                  IF d.ok THEN DictSet(dict, group, d.value)
                                  ELSE dict)
             ELSE DeviceEnter(Tail(cmds), group, dict)

send_config_set(cmds, dict) == DeviceEnter(cmds, "", dict)

(***************************************************************************)
(* Values of the variables a specification does not use.                   *)
(***************************************************************************)
NoParse == [exc |-> "none", dict |-> EmptyDict]

MainIdle ==
    /\ bras_dict = <<>> /\ dev = 1 /\ i = 0 /\ ssh_connection = "unset"
    /\ samples = <<>> /\ oplog = <<>> /\ contacted = {}

DiffIdle ==
    /\ interfaces_and_pado_list = <<>> /\ pado_delay_current_dict = EmptyDict
    /\ config_set = <<>> /\ device_dict = EmptyDict /\ config_set_again = <<>>

ClassIdle ==
    /\ sessions_number = 0 /\ pado_delay = 0
    /\ prev_sessions_number = 0 /\ prev_pado_delay = 0

ParseIdle == output = "" /\ parsed = NoParse

\* Sequences over S of length at most n.
SeqUpTo(S, n) == UNION {[1..k -> S] : k \in 0..n}

(***************************************************************************)
(* SpecClassify: successive polls of one interface, each classified by     *)
(* get_pado_delay (line 192) under thresholds of any order.                *)
(***************************************************************************)
ClassInit ==
    /\ pc = "poll0"
    /\ thresholds \in (0..MaxThreshold) \X (0..MaxThreshold) \X (0..MaxThreshold)
    /\ ClassIdle /\ MainIdle /\ DiffIdle /\ ParseIdle
    /\ exception = "none"

Classify ==
    /\ pc \in {"poll0", "poll1", "poll2"}
    /\ \E c \in 0..MaxSessions :
         /\ sessions_number' = c
         /\ pado_delay' = get_pado_delay(c, thresholds[1], thresholds[2],
                                         thresholds[3])
    /\ prev_sessions_number' = sessions_number
    /\ prev_pado_delay' = pado_delay
    /\ pc' = IF pc = "poll0" THEN "poll1" ELSE "poll2"
    /\ UNCHANGED <<thresholds, exception, mainVars, diffVars, parseVars>>

ClassNext == Classify

SpecClassify == ClassInit /\ [][ClassNext]_vars

(***************************************************************************)
(* SpecParse: get_pado_delay_current_dict on a configuration text.         *)
(***************************************************************************)
ConfigLines ==
    {"bba-group pppoe PPPOE_0/1/2", "bba-group pppoe PPPOE_NAT_0/1/2",
     " pado delay 256", " pado delay 0", " virtual-template 1",
     "bba-group pppoe PPPOE_0/0/1", " pado delay 512"}

ParseInit ==
    /\ pc = "parse0"
    /\ \E lines \in SeqUpTo(ConfigLines, MaxLines) : output = join(lines)
    /\ parsed = NoParse
    /\ thresholds = <<0, 0, 0>>
    /\ ClassIdle /\ MainIdle /\ DiffIdle
    /\ exception = "none"

Parse ==
    /\ pc = "parse0"
    /\ parsed' = get_pado_delay_current_dict(output)
    /\ pc' = "parsed"
    /\ UNCHANGED <<output, thresholds, exception, mainVars, diffVars, classVars>>

ParseNext == Parse

SpecParse == ParseInit /\ [][ParseNext]_vars

(***************************************************************************)
(* SpecDiff: create_pado_config_set on a desired list and a current        *)
(* dictionary, send_config_set of the batch, and the diff of a second run  *)
(* against what the device then holds.                                     *)
(***************************************************************************)
\* Interface names re.findall (line 43) can return: one or more non-space
\* characters followed by \d/\d/\d.  Two of them end in the same number.
InterfaceNames == {"Gi0/1/2", "Te0/1/2", "Gi0/0/1"}

\* Delays get_pado_delay returns, and delays a device may hold.
DesiredDelays == {0, 256, 9999}
CurrentDelays == {0, 256}

\* BBA groups a device may have configured.
GroupNames ==
    {"PPPOE_0/1/2", "PPPOE_NAT_0/1/2", "PPPOE_0/0/1"}

CurrentDicts == UNION {[G -> CurrentDelays] : G \in SUBSET GroupNames}

DiffInit ==
    /\ pc = "diff0"
    /\ interfaces_and_pado_list
           \in SeqUpTo(InterfaceNames \X DesiredDelays, MaxInterfaces)
    /\ pado_delay_current_dict \in CurrentDicts
    /\ device_dict = pado_delay_current_dict
    /\ config_set = <<>> /\ config_set_again = <<>>
    /\ thresholds = <<0, 0, 0>>
    /\ ClassIdle /\ MainIdle /\ ParseIdle
    /\ exception = "none"

\* create_pado_config_set (lines 131-140) with the dictionary fetched.
DiffCreate ==
    /\ pc = "diff0"
    /\ config_set' = create_pado_config_set(interfaces_and_pado_list,
                                            pado_delay_current_dict)
    /\ pc' = "diffed"
    /\ UNCHANGED <<interfaces_and_pado_list, pado_delay_current_dict,
                   device_dict, config_set_again, thresholds, exception,
                   mainVars, classVars, parseVars>>

\* set_pado_delay (lines 152-153): a non-empty batch is sent to the device.
DiffSend ==
    /\ pc = "diffed"
    /\ device_dict' = IF config_set # <<>>
                      THEN send_config_set(config_set, device_dict)
                      ELSE device_dict
    /\ pc' = "sent"
    /\ UNCHANGED <<interfaces_and_pado_list, pado_delay_current_dict,
                   config_set, config_set_again, thresholds, exception,
                   mainVars, classVars, parseVars>>

\* The next run: the same desired list against what the device holds now.
DiffAgain ==
    /\ pc = "sent"
    /\ config_set_again' = create_pado_config_set(interfaces_and_pado_list,
                                                  device_dict)
    /\ pc' = "rediffed"
    /\ UNCHANGED <<interfaces_and_pado_list, pado_delay_current_dict,
                   config_set, device_dict, thresholds, exception,
                   mainVars, classVars, parseVars>>

DiffNext == DiffCreate \/ DiffSend \/ DiffAgain

SpecDiff == DiffInit /\ [][DiffNext]_vars

(***************************************************************************)
(* Spec: main (lines 174-201) over the keys of bras_dict, with             *)
(* connection_to_iosxe (lines 17-33) inlined.  What a device answers, and  *)
(* whether a call to it raises, is chosen by the environment.              *)
(***************************************************************************)
DeviceKeys == {"10.0.0.1", "#10.0.0.2", "10.0.0.3"}

\* A dictionary's keys are distinct.
DeviceLists ==
    {l \in SeqUpTo(DeviceKeys, MaxDevices) :
        \A a, b \in 1..Len(l) : a # b => l[a] # l[b]}

MainLadders == {<<1, 2, 3>>}

\* Results of re.findall on 'show pppoe summary' (line 43): pairs of an
\* interface name and a string of digits.
Summaries ==
    {<<>>,
     <<<<"Gi0/1/2", "0">>>>,
     <<<<"Gi0/1/2", "2">>, <<"Gi0/0/1", "1">>>>,
     <<<<"Gi0/1/2", "1">>, <<"Te0/1/2", "3">>>>}

\* Texts 'sh run | sec bba' can return.
Configs ==
    {"",
     "bba-group pppoe PPPOE_0/1/2\n virtual-template 1\nbba-group pppoe PPPOE_NAT_0/1/2\n pado delay 256",
     "bba-group pppoe PPPOE_0/1/2\n pado delay 512\nbba-group pppoe PPPOE_0/0/1",
     " pado delay 256\nbba-group pppoe PPPOE_0/1/2"}

\* Exceptions a command sent over an established session can raise.
TransportExceptions == {"NetMikoTimeoutException", "OSError"}

Init ==
    /\ pc = "for"
    /\ bras_dict \in DeviceLists
    /\ thresholds \in MainLadders
    /\ dev = 1 /\ i = 0 /\ ssh_connection = "unset"
    /\ samples = <<>> /\ oplog = <<>> /\ contacted = {}
    /\ exception = "none"
    /\ DiffIdle /\ ClassIdle /\ ParseIdle

unchangedByMain == <<bras_dict, thresholds, config_set_again, classVars, parseVars>>

\* Line 175: a key that starts with '#' is a comment.
IsComment(device_ip) == StartsWith(device_ip, "#")

\* Variant: one attempt more than the three of line 19.
TriesLeft_four(n) == n <= 3

\* Line 19: the condition of the while loop.
TriesLeft(n) == n < 3

\* Line 174: the keys are exhausted.
ForDone ==
    /\ pc = "for" /\ dev > Len(bras_dict)
    /\ pc' = "done"
    /\ UNCHANGED <<dev, i, ssh_connection, samples, oplog, contacted, exception,
                   diffVars, unchangedByMain>>

\* Lines 175-176: continue.
ForComment ==
    /\ pc = "for" /\ dev <= Len(bras_dict) /\ IsComment(bras_dict[dev])
    /\ dev' = dev + 1
    /\ UNCHANGED <<pc, i, ssh_connection, samples, oplog, contacted, exception,
                   diffVars, unchangedByMain>>

\* Lines 177-181 and 10-17: connection_to_iosxe is entered; its local
\* ssh_connection is not assigned yet.
ForDevice ==
    /\ pc = "for" /\ dev <= Len(bras_dict) /\ ~IsComment(bras_dict[dev])
    /\ pc' = "connect"
    /\ i' = 0
    /\ ssh_connection' = "unset"
    /\ oplog' = <<>>
    /\ UNCHANGED <<dev, samples, contacted, exception, diffVars, unchangedByMain>>

\* Lines 21-27: ConnectHandler raises one of the two exceptions caught.
ConnectFail ==
    /\ pc = "connect" /\ TriesLeft(i)
    /\ \E e \in {"AuthenticationException", "NetMikoTimeoutException"} :
         i' = i + 1
    /\ oplog' = Append(oplog, "ConnectHandler")
    /\ contacted' = contacted \cup {bras_dict[dev]}
    /\ UNCHANGED <<pc, dev, ssh_connection, samples, exception, diffVars,
                   unchangedByMain>>

\* Lines 21, 28-30 and 186: the session is returned to main.
ConnectSuccess ==
    /\ pc = "connect" /\ TriesLeft(i)
    /\ ssh_connection' = "session"
    /\ oplog' = Append(oplog, "ConnectHandler")
    /\ contacted' = contacted \cup {bras_dict[dev]}
    /\ interfaces_and_pado_list' = <<>>
    /\ pc' = "summary"
    /\ UNCHANGED <<dev, i, samples, exception, pado_delay_current_dict,
                   config_set, device_dict, unchangedByMain>>

\* Lines 32-33 and 182-183: None is returned and main continues.
ConnectGiveUp ==
    /\ pc = "connect" /\ ~TriesLeft(i)
    /\ ssh_connection' = "None"
    /\ dev' = dev + 1
    /\ pc' = "for"
    /\ UNCHANGED <<i, samples, oplog, contacted, exception, diffVars,
                   unchangedByMain>>

\* Variant: set_pado_delay called without iterating the findall result.
AfterSummary_skip(rest) == "config"

\* Where main goes once the findall result is at hand (lines 189, 199).
AfterSummary(rest) == IF rest = <<>> THEN "config" ELSE "classify"

\* Lines 189 and 43: 'show pppoe summary' is answered.
FetchSessions ==
    /\ pc = "summary"
    /\ oplog' = Append(oplog, "show pppoe summary")
    /\ \E s \in Summaries :
         /\ samples' = s
         /\ pc' = AfterSummary(s)
    /\ UNCHANGED <<dev, i, ssh_connection, contacted, exception, diffVars,
                   unchangedByMain>>

\* Line 43: send_command raises; nothing in main catches it.
FetchSessionsRaises ==
    /\ pc = "summary"
    /\ oplog' = Append(oplog, "show pppoe summary")
    /\ \E e \in TransportExceptions : exception' = e
    /\ pc' = "crashed"
    /\ UNCHANGED <<dev, i, ssh_connection, samples, contacted, diffVars,
                   unchangedByMain>>

\* Lines 189-196: one iteration of the loop over the findall result.
ClassifySample ==
    /\ pc = "classify" /\ samples # <<>>
    /\ LET interface_name == Head(samples)[1]
           sessions_num == Head(samples)[2]
           delay == get_pado_delay(int(sessions_num).value, thresholds[1],
                                   thresholds[2], thresholds[3])
       IN  interfaces_and_pado_list' =
               Append(interfaces_and_pado_list, <<interface_name, delay>>)
    /\ samples' = Tail(samples)
    /\ oplog' = Append(oplog, "get_pado_delay")
    /\ pc' = AfterSummary(Tail(samples))
    /\ UNCHANGED <<dev, i, ssh_connection, contacted, exception,
                   pado_delay_current_dict, config_set, device_dict,
                   unchangedByMain>>

\* Lines 199, 151, 132 and 97-107: 'sh run | sec bba' is answered and parsed;
\* an exception of the parsing loop ends main.
FetchConfig ==
    /\ pc = "config"
    /\ oplog' = Append(oplog, "sh run | sec bba")
    /\ \E text \in Configs :
         LET r == get_pado_delay_current_dict(text)
         IN  IF r.exc = "none"
             THEN /\ pado_delay_current_dict' = r.dict
                  /\ device_dict' = r.dict
                  /\ pc' = "diff"
                  /\ UNCHANGED exception
             ELSE /\ exception' = r.exc
                  /\ pc' = "crashed"
                  /\ UNCHANGED <<pado_delay_current_dict, device_dict>>
    /\ UNCHANGED <<dev, i, ssh_connection, samples, contacted,
                   interfaces_and_pado_list, config_set, unchangedByMain>>

\* Line 99: send_command raises.
FetchConfigRaises ==
    /\ pc = "config"
    /\ oplog' = Append(oplog, "sh run | sec bba")
    /\ \E e \in TransportExceptions : exception' = e
    /\ pc' = "crashed"
    /\ UNCHANGED <<dev, i, ssh_connection, samples, contacted, diffVars,
                   unchangedByMain>>

\* Lines 133-140 and 152: the batch is built; an empty one is not sent.
Diff ==
    /\ pc = "diff"
    /\ config_set' = create_pado_config_set(interfaces_and_pado_list,
                                            pado_delay_current_dict)
    /\ oplog' = Append(oplog, "create_pado_config_set")
    /\ pc' = IF config_set' # <<>> THEN "apply" ELSE "log"
    /\ UNCHANGED <<dev, i, ssh_connection, samples, contacted, exception,
                   interfaces_and_pado_list, pado_delay_current_dict,
                   device_dict, unchangedByMain>>

\* Line 153: the batch is sent and the device takes it.
Apply ==
    /\ pc = "apply"
    /\ oplog' = Append(oplog, "send_config_set")
    /\ device_dict' = send_config_set(config_set, device_dict)
    /\ pc' = "log"
    /\ UNCHANGED <<dev, i, ssh_connection, samples, contacted, exception,
                   interfaces_and_pado_list, pado_delay_current_dict,
                   config_set, unchangedByMain>>

\* Line 153: send_config_set raises.
ApplyRaises ==
    /\ pc = "apply"
    /\ oplog' = Append(oplog, "send_config_set")
    /\ \E e \in TransportExceptions : exception' = e
    /\ pc' = "crashed"
    /\ UNCHANGED <<dev, i, ssh_connection, samples, contacted, diffVars,
                   unchangedByMain>>

\* Line 201: the log line is printed and the for loop goes on.
Log ==
    /\ pc = "log"
    /\ oplog' = Append(oplog, "print")
    /\ dev' = dev + 1
    /\ pc' = "for"
    /\ UNCHANGED <<i, ssh_connection, samples, contacted, exception, diffVars,
                   unchangedByMain>>

Next ==
    \/ ForDone \/ ForComment \/ ForDevice
    \/ ConnectFail \/ ConnectSuccess \/ ConnectGiveUp
    \/ FetchSessions \/ FetchSessionsRaises \/ ClassifySample
    \/ FetchConfig \/ FetchConfigRaises
    \/ Diff \/ Apply \/ ApplyRaises \/ Log

Spec == Init /\ [][Next]_vars

\* main is one sequential process: it takes its next step whenever it has one.
FairSpec == Spec /\ WF_vars(Next)

(***************************************************************************)
(* Properties of get_pado_delay, under SpecClassify.                       *)
(***************************************************************************)
Classified == pc \in {"poll1", "poll2"}

StrictlyIncreasing ==
    thresholds[1] < thresholds[2] /\ thresholds[2] < thresholds[3]

\* The ladder the three thresholds stand for: boundary and namesake delay.
Ladder ==
    <<[boundary |-> thresholds[1], delay |-> 256],
      [boundary |-> thresholds[2], delay |-> 512],
      [boundary |-> thresholds[3], delay |-> 9999]>>

\* 0 below the first boundary, else the delay of the last entry whose
\* boundary is at most the count.
TierDelay(c) ==
    LET reached == {k \in 1..3 : Ladder[k].boundary <= c}
    IN  IF reached = {} THEN 0 ELSE Ladder[Max(reached)].delay

\* C4: under a strictly increasing ladder the delay computed for a session
\* count is 0 below the first boundary and otherwise the delay of the last
\* boundary that is at most the count; a count equal to a boundary gets that
\* boundary's delay.
C4_TierOfCount ==
    (Classified /\ StrictlyIncreasing) => pado_delay = TierDelay(sessions_number)

C4_Witness ==
    /\ Classified /\ StrictlyIncreasing
    /\ sessions_number = thresholds[2]
    /\ pado_delay = 512

\* C5: for any thresholds, a poll whose session count is at least the
\* previous poll's gets a delay at least the previous poll's.
C5_Monotone ==
    (pc = "poll2" /\ prev_sessions_number <= sessions_number)
        => prev_pado_delay <= pado_delay

C5_Witness ==
    /\ pc = "poll2"
    /\ thresholds[2] < thresholds[1]
    /\ prev_sessions_number < sessions_number
    /\ prev_pado_delay = 0 /\ pado_delay = 9999

(***************************************************************************)
(* Properties of create_pado_config_set, under SpecDiff.                   *)
(***************************************************************************)
\* The trailing D/D/D of an interface name, and the groups named after it.
NumberOf(interface_name) ==
    SubSeq(interface_name, Len(interface_name) - 4, Len(interface_name))

PrimaryGroupOf(interface_name) == "PPPOE_" \o NumberOf(interface_name)
NatGroupOf(interface_name) == "PPPOE_NAT_" \o NumberOf(interface_name)

\* The decimal text of the delays get_pado_delay returns.
DelayText(d) ==
    CASE d = 0 -> "0" [] d = 256 -> "256" [] d = 512 -> "512" [] d = 9999 -> "9999"

\* The groups a batch selects.
SelectedGroups(cmds) ==
    {SubSeq(cmds[k], Len("bba-group pppoe ") + 1, Len(cmds[k])) :
        k \in {j \in 1..Len(cmds) : StartsWith(cmds[j], "bba-group pppoe ")}}

\* C1: no command of a batch names a group that is not a key of the current
\* dictionary, so sending the batch creates no group on the device.
C1_NoAbsentGroup ==
    /\ pc \in {"diffed", "sent", "rediffed"}
         => SelectedGroups(config_set) \subseteq DOMAIN pado_delay_current_dict
    /\ pc \in {"sent", "rediffed"}
         => DOMAIN device_dict = DOMAIN pado_delay_current_dict
    /\ pc = "rediffed"
         => SelectedGroups(config_set_again) \subseteq DOMAIN device_dict

\* Scenario C: the primary group is configured, the NAT group is absent.
C1_Witness ==
    /\ pc = "sent" /\ config_set # <<>>
    /\ \E k \in 1..Len(interfaces_and_pado_list) :
         LET e == interfaces_and_pado_list[k]
         IN  /\ PrimaryGroupOf(e[1]) \in DOMAIN pado_delay_current_dict
             /\ pado_delay_current_dict[PrimaryGroupOf(e[1])] # e[2]
             /\ NatGroupOf(e[1]) \notin DOMAIN pado_delay_current_dict
             /\ e[2] # 0

\* The (entry, group) slots of a list of n entries, in the order of the
\* claim: input order, and primary before NAT within an entry.
Slots(n) == [j \in 1..(2 * n) |-> <<(j + 1) \div 2, ((j - 1) % 2) + 1>>]

SlotGroup(list, slot) ==
    IF slot[2] = 1 THEN PrimaryGroupOf(list[slot[1]][1])
    ELSE NatGroupOf(list[slot[1]][1])

SlotDiffers(list, dict, slot) ==
    /\ SlotGroup(list, slot) \in DOMAIN dict
    /\ dict[SlotGroup(list, slot)] # list[slot[1]][2]

ExpectedBatch(list, dict) ==
    LET sel == SelectSeq(Slots(Len(list)), LAMBDA x : SlotDiffers(list, dict, x))
    IN  [j \in 1..(2 * Len(sel)) |->
            IF j % 2 = 1
            THEN "bba-group pppoe " \o SlotGroup(list, sel[(j + 1) \div 2])
            ELSE "pado delay " \o DelayText(list[sel[j \div 2][1]][2])]

\* C2: the batch is exactly the two commands of every group that is a key
\* of the current dictionary with a delay other than the desired one, in
\* input order and primary before NAT, and nothing else.
C2_ExactBatch ==
    pc \in {"diffed", "sent", "rediffed"}
        => config_set = ExpectedBatch(interfaces_and_pado_list,
                                      pado_delay_current_dict)

\* Two entries, two groups changed, and a group left alone because its
\* delay is the desired one already.
C2_Witness ==
    /\ pc = "diffed"
    /\ Len(interfaces_and_pado_list) = 2 /\ Len(config_set) = 4
    /\ \E k \in 1..2 :
         LET e == interfaces_and_pado_list[k]
         IN  /\ PrimaryGroupOf(e[1]) \in DOMAIN pado_delay_current_dict
             /\ pado_delay_current_dict[PrimaryGroupOf(e[1])] = e[2]

SameGroupsSameDelay ==
    \A a, b \in 1..Len(interfaces_and_pado_list) :
        NumberOf(interfaces_and_pado_list[a][1])
                = NumberOf(interfaces_and_pado_list[b][1])
            => interfaces_and_pado_list[a][2] = interfaces_and_pado_list[b][2]

LastSetIs(cmds, g, v) ==
    LET k == Max({j \in 1..Len(cmds) : cmds[j] = "bba-group pppoe " \o g})
    IN  /\ k < Len(cmds)
        /\ \E d \in DesiredDelays :
             d = v /\ cmds[k + 1] = "pado delay " \o DelayText(d)

\* The lines as the device shows them in its running configuration: the
\* delay line of a group indented by one space.
Committed(cmds) ==
    [j \in 1..Len(cmds) |->
        IF StartsWith(cmds[j], "pado delay") THEN " " \o cmds[j] ELSE cmds[j]]

ReconstructsDelays(cmds, r) ==
    /\ r.exc = "none"
    /\ \A g \in SelectedGroups(cmds) :
         g \in DOMAIN r.dict /\ LastSetIs(cmds, g, r.dict[g])

\* C6 as stated: the commands of a batch, joined line by line and parsed,
\* give every selected group the delay the batch set for it.
C6_RoundTrip ==
    pc = "diffed"
        => ReconstructsDelays(config_set,
                              get_pado_delay_current_dict(join(config_set)))

\* C6 amended: the commands of a batch, joined line by line and parsed, give
\* exactly the selected groups, each with delay 0 (a 'pado delay' command has
\* no leading space, a delay line of the parser has one); with every delay
\* line indented by one space, as in the running configuration, the parse
\* gives every selected group the delay the batch set for it last.
C6_RoundTripOfCommittedForm ==
    pc = "diffed"
        => /\ LET r == get_pado_delay_current_dict(join(config_set))
              IN  /\ r.exc = "none"
                  /\ DOMAIN r.dict = SelectedGroups(config_set)
                  /\ \A g \in DOMAIN r.dict : r.dict[g] = 0
           /\ LET r == get_pado_delay_current_dict(join(Committed(config_set)))
              IN  /\ DOMAIN r.dict = SelectedGroups(config_set)
                  /\ ReconstructsDelays(config_set, r)

\* A group set twice, the second time to a delay other than 0.
C6_Witness ==
    /\ pc = "diffed" /\ Len(config_set) >= 4
    /\ \E g \in SelectedGroups(config_set) :
         /\ LastSetIs(config_set, g, 9999)
         /\ config_set[1] = "bba-group pppoe " \o g
         /\ config_set[2] = "pado delay 256"

(***************************************************************************)
(* Properties of get_pado_delay_current_dict, under SpecParse.             *)
(***************************************************************************)
IsGroupLine(l) == StartsWith(l, "bba-group pppoe ")
GroupOfLine(l) == SubSeq(l, Len("bba-group pppoe ") + 1, Len(l))
IsDelayLine(l) == StartsWith(l, " pado delay ")
DelayOfLine(l) == int(SubSeq(l, Len(" pado delay ") + 1, Len(l))).value

\* The map of the claim: the groups declared, each with the last delay line
\* between its most recent declaration and the next declaration, or 0.
\* A delay line before any declaration belongs to no group.
FoldOfLines(lines) ==
    LET decls == {k \in 1..Len(lines) : IsGroupLine(lines[k])}
        groups == {GroupOfLine(lines[k]) : k \in decls}
        delayOf(g) ==
            LET kd == Max({k \in decls : GroupOfLine(lines[k]) = g})
                nxt == Min({k \in decls : k > kd} \cup {Len(lines) + 1})
                ds == {k \in (kd + 1)..(nxt - 1) : IsDelayLine(lines[k])}
            IN  IF ds = {} THEN 0 ELSE DelayOfLine(lines[Max(ds)])
    IN  [g \in groups |-> delayOf(g)]

\* C9: the parse of any text of group lines, delay lines and other lines
\* raises nothing and returns the map of the declared groups, each with its
\* last delay since its most recent declaration or 0; a delay line before
\* any group line is ignored.
C9_FoldWithCursor ==
    pc = "parsed"
        => /\ parsed.exc = "none"
           /\ parsed.dict = FoldOfLines(split(output))

(***************************************************************************)
(* Properties of main, under Spec and FairSpec.                            *)
(***************************************************************************)
Count(op) == Cardinality({k \in 1..Len(oplog) : oplog[k] = op})
Done(op) == Count(op) > 0

\* The order of the steps as the specification gives it.
RankStated(op) ==
    CASE op = "ConnectHandler" -> 0
      [] op = "show pppoe summary" -> 1
      [] op = "sh run | sec bba" -> 2
      [] op = "get_pado_delay" -> 3
      [] op = "create_pado_config_set" -> 4
      [] op = "send_config_set" -> 5
      [] op = "print" -> 6

\* The order of the steps in main.
RankInMain(op) ==
    CASE op = "ConnectHandler" -> 0
      [] op = "show pppoe summary" -> 1
      [] op = "get_pado_delay" -> 2
      [] op = "sh run | sec bba" -> 3
      [] op = "create_pado_config_set" -> 4
      [] op = "send_config_set" -> 5
      [] op = "print" -> 6

\* C7 as stated: on one device the steps come in the order session summary,
\* current configuration, classification, diff, apply, log.
C7_OrderAsStated ==
    \A a, b \in 1..Len(oplog) :
        a < b => RankStated(oplog[a]) <= RankStated(oplog[b])

\* C7 amended: on one device the steps come in the order session summary,
\* classification of every session count, current configuration, diff,
\* apply, log; each step but the classification happens at most once; the
\* current configuration is fetched only after the summary, when every
\* count has been classified, and the batch is sent only after both fetches
\* and the diff.
C7_OrderInMain ==
    /\ \A a, b \in 1..Len(oplog) :
         a < b => /\ RankInMain(oplog[a]) <= RankInMain(oplog[b])
                  /\ RankInMain(oplog[a]) = RankInMain(oplog[b])
                       => oplog[a] \in {"ConnectHandler", "get_pado_delay"}
    /\ Done("sh run | sec bba")
         => /\ Done("show pppoe summary")
            /\ samples = <<>>
            /\ Count("get_pado_delay") = Len(interfaces_and_pado_list)
    /\ Done("create_pado_config_set") => Done("sh run | sec bba")
    /\ Done("send_config_set") => Done("create_pado_config_set")
    /\ Done("print") => Done("create_pado_config_set")

\* A whole pass: two counts classified, a batch sent, the line logged.
C7_Witness ==
    /\ pc = "for"
    /\ Count("get_pado_delay") = 2
    /\ Done("send_config_set") /\ Done("print")

NonCommentKeys ==
    {bras_dict[k] : k \in {j \in 1..Len(bras_dict) : ~IsComment(bras_dict[j])}}

\* C8: when a fetch or the sending of the batch fails, nothing more is sent
\* to that device and the run goes on with the next one: when the run has
\* ended, every key that is no comment has been contacted.
C8_FailureSkipsDevice ==
    /\ (exception # "none" /\ oplog[Len(oplog)] # "send_config_set")
         => ~Done("send_config_set")
    /\ pc \in {"done", "crashed"} => NonCommentKeys \subseteq contacted

\* C10: at most three connection attempts per device; the session is
\* returned at the first attempt that succeeds; None is returned after the
\* third failure, and then no command is sent to the device, main goes on
\* with the next key, and the run over the keys ends.
C10_State ==
    /\ i <= 3 /\ Count("ConnectHandler") <= 3
    /\ pc = "connect" => Count("ConnectHandler") = i
    /\ ssh_connection = "session" => Count("ConnectHandler") = i + 1
    /\ ssh_connection = "None"
         => /\ i = 3
            /\ Len(oplog) = 3 /\ Count("ConnectHandler") = 3
            /\ pc \in {"for", "done"}
            /\ exception = "none"

C10_GiveUpStep ==
    (ssh_connection # "None" /\ ssh_connection' = "None")
        => (pc' = "for" /\ dev' = dev + 1 /\ exception' = "none")

C10_BoundedRetry ==
    /\ []C10_State
    /\ [][C10_GiveUpStep]_vars
    /\ <>(pc \in {"done", "crashed"})

\* The first device has just been given up after three failed attempts and
\* the for loop stands at the second key, a device still to be contacted.
C10_Witness ==
    /\ ssh_connection = "None" /\ pc = "for" /\ dev = 2
    /\ Count("ConnectHandler") = 3
    /\ Len(bras_dict) = 2 /\ ~IsComment(bras_dict[2])
    /\ contacted = {bras_dict[1]}

====
